---- MODULE Spec2Model ----
(***************************************************************************)
(* ChatAgent.process_query (src/cogops/agent.py) as a state machine.       *)
(*                                                                         *)
(* One conversation, turns one after another.  A turn is the life of one   *)
(* async generator returned by process_query: pc is the suspension point   *)
(* (an await or a yield) the generator is parked at; every action runs the *)
(* code from one suspension point to the next.  The collaborators (planner,*)
(* retriever, reranker, LLM streams, summarizer) are the environment: each *)
(* await either returns a value drawn from a small set or raises.          *)
(*                                                                         *)
(* Text is a sequence of one-character strings, so that "".join, strip()   *)
(* and sorted() are computed and not assumed.                              *)
(***************************************************************************)
EXTENDS Integers, Sequences, FiniteSets, TLC

VARIABLES
    history,            \* self.history: summarized log, sequence of <<query, reply>>
    raw_history,        \* self.raw_history: verbatim log, sequence of <<query, reply>>
    pc,                 \* suspension point of the running generator
    turns,              \* number of process_query calls made so far
    user_query,         \* argument of the running call
    plan,               \* local: the RetrievalPlan returned by the planner
    retrieved,          \* local: result of the vector retriever
    reranked,           \* local: result of reranker.rerank
    relevant_passages,  \* local: reranked passages that survive the relevance cut
    upstream,           \* deltas the provider has delivered on the open LLM stream
    stream_state,       \* the LLM stream generator: "none", "open", "ended", "failed"
    full_answer_list,   \* local: chunks collected from the stream
    final_answer,       \* local: the stripped answer of the synthesis branch
    clar_idx,           \* local: position of the clarification loop
    events,             \* events yielded to the consumer in this turn
    outcome,            \* how the turn ended: "none", "completed", "errored", "cancelled"
    history0,           \* self.history as it was when the turn started
    raw0,               \* self.raw_history as it was when the turn started
    rerank_history,     \* the history argument of this turn's rerank call, if made
    prompt_history,     \* the history slot of this turn's synthesis prompt, if built
    \* --- the finalization step of the synthesis branch, on its own ---
    src_pc,             \* "off", "input" (passages given), "done" (sources computed)
    kept_passages,      \* the relevant passages handed to the finalization
    final_sources,      \* final_sources as computed from kept_passages
    \* --- ParallelReranker and the semaphore its invocations share ---
    rr_limit,           \* the concurrency limit the semaphore was built with
    sem_value,          \* asyncio.Semaphore._value: permits not handed out
    sem_waiters,        \* asyncio.Semaphore._waiters, oldest first
    rr_pc,              \* per rerank invocation: where it stands
    rr_n,               \* per rerank invocation: number of candidates
    rr_task,            \* per _score_one_passage task: its state
    rr_result,          \* per rerank invocation: the list it returned
    \* --- one retrieve call of a vector retriever ---
    rt_impl,            \* "rrf": DynamicVectorRetriever, "union": VectorRetriever
    rt_pc,              \* "off", "querying", "selected", "returned", "raised"
    rt_replies,         \* per shard queried so far: what the collection did
    rt_lists,           \* per shard queried so far: what _query_collection_async returned
    rt_top,             \* the passage ids asked of the passage store, in order
    rt_rows,            \* what the passage store did
    rt_out,             \* the passage ids of the returned passages, in order
    \* --- one build_safe_prompt call of the TokenManager ---
    tm_pc,              \* "off", "called", "returned"
    tm_call,            \* the arguments of the call
    tm_out              \* what the call computed and returned

agentVars == <<history, raw_history, pc, turns, user_query, plan, retrieved, reranked,
               relevant_passages, upstream, stream_state, full_answer_list,
               final_answer, clar_idx, events, outcome, history0, raw0,
               rerank_history, prompt_history>>

\* The arguments the turn has passed to its collaborators.
callVars == <<rerank_history, prompt_history>>

srcVars == <<src_pc, kept_passages, final_sources>>

rrVars == <<rr_limit, sem_value, sem_waiters, rr_pc, rr_n, rr_task, rr_result>>

rtVars == <<rt_impl, rt_pc, rt_replies, rt_lists, rt_top, rt_rows, rt_out>>

tmVars == <<tm_pc, tm_call, tm_out>>

\* The variables a step of process_query leaves alone.
otherVars == <<srcVars, rrVars, rtVars, tmVars>>

\* The variables a step of process_query that calls neither the reranker nor
\* build_safe_prompt leaves alone.
quietVars == <<callVars, otherVars>>

vars == <<agentVars, srcVars, rrVars, rtVars, tmVars>>

(***************************************************************************)
(* Bounds and configuration                                                *)
(***************************************************************************)
\* Number of process_query calls explored.
MaxTurns == 3

\* self.history_window (config['conversation']['history_window']).
HistoryWindow == 2

\* self.relevance_score_threshold (config['reranker']['relevance_score_threshold']).
RelevanceThreshold == 2

(***************************************************************************)
(* Text                                                                    *)
(***************************************************************************)
\* Characters in code-point order, as Python compares them.
Alphabet == <<" ", "0", "1", "9", "a", "b", "s", "u">>

Ord(c) == CHOOSE i \in 1..Len(Alphabet) : Alphabet[i] = c

IsSpace(c) == c = " "

RECURSIVE Join(_)
\* "".join(parts)
Join(parts) == IF parts = <<>> THEN <<>> ELSE Head(parts) \o Join(Tail(parts))

RECURSIVE LStrip(_)
LStrip(t) == IF t # <<>> /\ IsSpace(Head(t)) THEN LStrip(Tail(t)) ELSE t

RECURSIVE RStrip(_)
RStrip(t) ==
    IF t # <<>> /\ IsSpace(t[Len(t)]) THEN RStrip(SubSeq(t, 1, Len(t) - 1)) ELSE t

\* str.strip()
Strip(t) == RStrip(LStrip(t))

RECURSIVE LexLess(_, _)
\* a < b for Python strings
LexLess(a, b) ==
    IF b = <<>> THEN FALSE
    ELSE IF a = <<>> THEN TRUE
    ELSE IF Head(a) = Head(b) THEN LexLess(Tail(a), Tail(b))
    ELSE Ord(Head(a)) < Ord(Head(b))

RECURSIVE Sorted(_)
\* sorted(list(S)) for a set of strings
Sorted(S) ==
    IF S = {} THEN <<>>
    ELSE LET m == CHOOSE x \in S : \A y \in S \ {x} : LexLess(x, y)
         IN  <<m>> \o Sorted(S \ {m})

Range(s) == {s[i] : i \in 1..Len(s)}

Last(s) == s[Len(s)]

(***************************************************************************)
(* Values exchanged with the collaborators                                 *)
(***************************************************************************)
\* QueryType (src/cogops/prompts/retrive.py)
QueryTypes ==
    {"IN_DOMAIN_GOVT_SERVICE_INQUIRY", "OUT_OF_DOMAIN_GOVT_SERVICE_INQUIRY",
     "GENERAL_KNOWLEDGE", "CHITCHAT", "AMBIGUOUS", "ABUSIVE_SLANG",
     "IDENTITY_INQUIRY", "MALICIOUS", "UNHANDLED"}

\* non_retrieval_types of process_query
NonRetrievalTypes ==
    {"OUT_OF_DOMAIN_GOVT_SERVICE_INQUIRY", "GENERAL_KNOWLEDGE", "CHITCHAT",
     "ABUSIVE_SLANG", "IDENTITY_INQUIRY", "MALICIOUS", "UNHANDLED"}

\* An Optional[str] is a sequence of no text (None) or one text.
None == <<>>

Some(t) == <<t>>

\* Python truthiness of an Optional[str]: neither None nor "".
Truthy(opt) == opt # None /\ opt[1] # <<>>

\* The plans the planner may return: every kind with the optional clarification
\* absent, and the kinds on which a present clarification changes what the
\* schema admits (AMBIGUOUS with text, AMBIGUOUS with "", another kind with text).
Plans ==
    {[query_type |-> k, clarification |-> None] : k \in QueryTypes}
    \cup {[query_type |-> "AMBIGUOUS", clarification |-> Some(<<"b", "a">>)],
          [query_type |-> "AMBIGUOUS", clarification |-> Some(<<>>)],
          [query_type |-> "CHITCHAT", clarification |-> Some(<<"b", "a">>)]}

NoPlan == [query_type |-> "NONE", clarification |-> None]

\* What a provider may send on one stream: the delta.content of each chunk, in
\* order.  An empty delta is a chunk without content.
Streams ==
    {<<>>,
     << <<" ">>, <<>>, <<"a">>, <<"b", " ">> >>}

Deltas == UNION {{s[i] : i \in 1..Len(s)} : s \in Streams}

StreamPrefixes == UNION {{SubSeq(s, 1, n) : n \in 0..Len(s)} : s \in Streams}

\* Candidate passages as the retriever returns them; url <<>> stands for a
\* metadata without url.
Retrievals ==
    {<<>>,
     <<[passage_id |-> <<"1", "0">>, url |-> <<"u", "b">>]>>,
     <<[passage_id |-> <<"1", "0">>, url |-> <<"u", "b">>],
       [passage_id |-> <<"9">>, url |-> <<>>]>>}

\* What one judge call of the reranker may come to: 0 is a call that failed
\* (the candidate is omitted), the others are the scores 1..3 of the judge,
\* on either side of the relevance threshold.
JudgeOutcomes == {0, 1, 2, 3}

\* Summaries the summarizer may return.
Summaries == {<<"s">>, <<" ", "s", " ">>}

\* The two families of exception process_query tells apart.
Errors == {"network", "other"}

\* self.response_templates
ResponseTemplates ==
    [no_passages_found |-> <<"no_passages_found">>,
     error_fallback |-> <<"error_fallback">>]

NetworkErrorMessage == <<"Network error : services unavailable due to load">>

AnswerChunk(c) == [type |-> "answer_chunk", content |-> c]

FinalData(s) == [type |-> "final_data", content |-> [sources |-> s]]

ErrorEvent(err) ==
    [type |-> "error",
     content |-> IF err = "network" THEN NetworkErrorMessage
                 ELSE ResponseTemplates.error_fallback]

(***************************************************************************)
(* Pure steps of process_query                                             *)
(***************************************************************************)
\* The history truncation at the end of process_query: one pop(0) when the
\* log is longer than the window.
Truncate(log) == IF Len(log) > HistoryWindow THEN Tail(log) ELSE log

\* AsyncLLMService.stream yields a delta only when its content is truthy.
HasContent(d) == d # <<>>

\* What reranker.rerank returns for the per-candidate outcomes sc: sc[i] = 0 is
\* a judge call that failed (the candidate is omitted), 1..3 is the score the
\* candidate gets; asyncio.gather keeps the candidates' order.
RerankResult(cands, sc) ==
    SelectSeq([i \in 1..Len(cands) |->
                  [passage_id |-> cands[i].passage_id, url |-> cands[i].url,
                   score |-> sc[i]]],
              LAMBDA p : p.score # 0)

\* Faulty variant: the cut drops the passages whose score equals the threshold.
RelevantPassages_Strict(rr) == SelectSeq(rr, LAMBDA p : p.score < RelevanceThreshold)

\* The relevance cut.
RelevantPassages(rr) == SelectSeq(rr, LAMBDA p : p.score <= RelevanceThreshold)

\* final_sources of the synthesis branch.
\* Faulty variant: the url of every passage is collected, absent or not.
FinalSources_Unfiltered(passages) ==
    LET unique_urls == {p.url : p \in Range(passages)}
        unique_passage_ids == {p.passage_id : p \in Range(passages)}
    IN  Sorted(unique_urls) \o Sorted(unique_passage_ids)

FinalSources(passages) ==
    LET unique_urls == {p.url : p \in {q \in Range(passages) : q.url # <<>>}}
        unique_passage_ids == {p.passage_id : p \in Range(passages)}
    IN  Sorted(unique_urls) \o Sorted(unique_passage_ids)

(***************************************************************************)
(* The state after construction                                            *)
(***************************************************************************)
AgentInit ==
    /\ history = <<>>
    /\ raw_history = <<>>
    /\ pc = "idle"
    /\ turns = 0
    /\ user_query = 0
    /\ plan = NoPlan
    /\ retrieved = <<>>
    /\ reranked = <<>>
    /\ relevant_passages = <<>>
    /\ upstream = <<>>
    /\ stream_state = "none"
    /\ full_answer_list = <<>>
    /\ final_answer = <<>>
    /\ clar_idx = 0
    /\ events = <<>>
    /\ outcome = "none"
    /\ history0 = <<>>
    /\ raw0 = <<>>
    /\ rerank_history = <<>>
    /\ prompt_history = <<>>

\* The finalization harness is not in use.
SourcesOff ==
    /\ src_pc = "off"
    /\ kept_passages = <<>>
    /\ final_sources = <<>>

\* Candidates over all the invocations of a run.
MaxCandidates == 3

\* Two rerank invocations may overlap on one ParallelReranker.
Invocations == {1, 2}

Tasks == Invocations \X (1..MaxCandidates)

\* A _score_one_passage task that does not exist (yet).
NoTask == [st |-> "none", call |-> "none", ret |-> 0]

\* The reranker harness is not in use.
RerankerOff ==
    /\ rr_limit = 0
    /\ sem_value = 0
    /\ sem_waiters = <<>>
    /\ rr_pc = [inv \in Invocations |-> "off"]
    /\ rr_n = [inv \in Invocations |-> 0]
    /\ rr_task = [t \in Tasks |-> NoTask]
    /\ rr_result = [inv \in Invocations |-> <<>>]

\* The passage store has not been asked.
NoRows == [ok |-> TRUE, ids |-> <<>>]

\* The retriever harness is not in use.
RetrieverOff ==
    /\ rt_impl = "none"
    /\ rt_pc = "off"
    /\ rt_replies = <<>>
    /\ rt_lists = <<>>
    /\ rt_top = <<>>
    /\ rt_rows = NoRows
    /\ rt_out = <<>>

\* No call of the token manager is under study.
NoCall ==
    [template |-> <<>>, max_tokens |-> 0, history |-> <<>>, passages_context |-> <<>>,
     fixed |-> <<>>]

NoPrompt ==
    [history_str |-> <<>>, passage_str |-> <<>>, history_kept |-> 0,
     passages_kept |-> 0, assembled |-> <<>>, prompt |-> <<>>]

TokenManagerOff ==
    /\ tm_pc = "off"
    /\ tm_call = NoCall
    /\ tm_out = NoPrompt

Init == AgentInit /\ SourcesOff /\ RerankerOff /\ RetrieverOff /\ TokenManagerOff

(***************************************************************************)
(* One action per stretch of process_query between two suspension points   *)
(***************************************************************************)
\* A new call of process_query, up to the await of the planner.  The code
\* never inspects user_query, it only stores and formats it: the query of a
\* turn is identified with the ordinal of the turn.
ProcessQuery ==
    /\ pc \in {"idle", "done"}
    /\ turns < MaxTurns
    /\ turns' = turns + 1
    /\ user_query' = turns + 1
    /\ pc' = "planning"
    /\ plan' = NoPlan
    /\ retrieved' = <<>>
    /\ reranked' = <<>>
    /\ relevant_passages' = <<>>
    /\ upstream' = <<>>
    /\ stream_state' = "none"
    /\ full_answer_list' = <<>>
    /\ final_answer' = <<>>
    /\ clar_idx' = 0
    /\ events' = <<>>
    /\ outcome' = "none"
    /\ history0' = history
    /\ raw0' = raw_history
    /\ rerank_history' = <<>>
    /\ prompt_history' = <<>>
    /\ UNCHANGED <<history, raw_history>>

\* Faulty variant: every exception is answered with the error_fallback
\* template, a network failure included.
RaiseError_AlwaysFallback(err) ==
    /\ events' = Append(events, ErrorEvent("other"))
    /\ pc' = "error"

\* The except blocks: one error event is yielded; the generator is parked at
\* that yield.
RaiseError(err) ==
    /\ events' = Append(events, ErrorEvent(err))
    /\ pc' = "error"

\* The generator returns.
Return(how) ==
    /\ pc' = "done"
    /\ outcome' = how

\* Faulty variant: the clarification is yielded whole, as one chunk.
RouteClarification_WholeText(p) ==
    /\ history' = Append(history, <<user_query, p.clarification[1]>>)
    /\ raw_history' = Append(raw_history, <<user_query, p.clarification[1]>>)
    /\ events' = Append(events, AnswerChunk(p.clarification[1]))
    /\ clar_idx' = Len(p.clarification[1])
    /\ pc' = "clarifying"
    /\ UNCHANGED <<stream_state, outcome>>

\* AMBIGUOUS with a clarification: both logs are appended, then the first
\* character is yielded.
RouteClarification(p) ==
    /\ history' = Append(history, <<user_query, p.clarification[1]>>)
    /\ raw_history' = Append(raw_history, <<user_query, p.clarification[1]>>)
    /\ events' = Append(events, AnswerChunk(<<p.clarification[1][1]>>))
    /\ clar_idx' = 1
    /\ pc' = "clarifying"
    /\ UNCHANGED <<stream_state, outcome>>

\* A non-retrieval kind: the responder stream is opened.
RouteNonRetrieval ==
    /\ stream_state' = "open"
    /\ pc' = "responding"
    /\ UNCHANGED <<history, raw_history, events, clar_idx, outcome>>

\* IN_DOMAIN: the retriever is awaited.
RouteRetrieval ==
    /\ pc' = "retrieving"
    /\ UNCHANGED <<history, raw_history, events, clar_idx, stream_state, outcome>>

\* No branch matches (AMBIGUOUS without clarification): control falls to the
\* truncation and the generator ends.
RouteNothing ==
    /\ history' = Truncate(history)
    /\ raw_history' = Truncate(raw_history)
    /\ Return("completed")
    /\ UNCHANGED <<events, clar_idx, stream_state>>

\* The planner returns plan p; the router runs up to the next suspension point.
PlannerReturns(p) ==
    /\ pc = "planning"
    /\ plan' = p
    /\ IF p.query_type = "AMBIGUOUS" /\ Truthy(p.clarification)
         THEN RouteClarification(p)
       ELSE IF p.query_type \in NonRetrievalTypes
         THEN RouteNonRetrieval
       ELSE IF p.query_type = "IN_DOMAIN_GOVT_SERVICE_INQUIRY"
         THEN RouteRetrieval
       ELSE RouteNothing
    /\ UNCHANGED <<turns, user_query, retrieved, reranked, relevant_passages,
                   upstream, full_answer_list, final_answer, history0, raw0>>

\* The planner call raises.
PlannerFails(err) ==
    /\ pc = "planning"
    /\ RaiseError(err)
    /\ UNCHANGED <<history, raw_history, turns, user_query, plan, retrieved,
                   reranked, relevant_passages, upstream, stream_state,
                   full_answer_list, final_answer, clar_idx, outcome, history0,
                   raw0>>

\* The clarification loop resumes after a yield and its pacing sleep: the next
\* character is yielded, or the loop is over and the generator returns.
ClarificationResumes ==
    /\ pc = "clarifying"
    /\ IF clar_idx < Len(plan.clarification[1])
         THEN /\ events' = Append(events,
                               AnswerChunk(<<plan.clarification[1][clar_idx + 1]>>))
              /\ clar_idx' = clar_idx + 1
              /\ UNCHANGED <<pc, outcome>>
         ELSE /\ Return("completed")
              /\ UNCHANGED <<events, clar_idx>>
    /\ UNCHANGED <<history, raw_history, turns, user_query, plan, retrieved,
                   reranked, relevant_passages, upstream, stream_state,
                   full_answer_list, final_answer, history0, raw0>>

\* Faulty variant of StreamDelivers: the chunk is collected into
\* full_answer_list and not yielded as it arrives.
StreamDelivers_Buffered(d) ==
    /\ pc \in {"responding", "pivoting", "answering"}
    /\ stream_state = "open"
    /\ Append(upstream, d) \in StreamPrefixes
    /\ upstream' = Append(upstream, d)
    /\ IF HasContent(d)
         THEN /\ full_answer_list' = Append(full_answer_list, d)
              /\ UNCHANGED events
         ELSE UNCHANGED <<full_answer_list, events>>
    /\ UNCHANGED <<history, raw_history, pc, turns, user_query, plan, retrieved,
                   reranked, relevant_passages, stream_state, final_answer,
                   clar_idx, outcome, history0, raw0>>

\* Faulty variant of StreamDelivers: the sources are yielded inside the
\* streaming loop of the answer branch, after every chunk.
StreamDelivers_SourcesInLoop(d) ==
    /\ pc \in {"responding", "pivoting", "answering"}
    /\ stream_state = "open"
    /\ Append(upstream, d) \in StreamPrefixes
    /\ upstream' = Append(upstream, d)
    /\ IF HasContent(d)
         THEN /\ full_answer_list' = Append(full_answer_list, d)
              /\ events' = IF pc = "answering"
                             THEN events \o <<AnswerChunk(d),
                                              FinalData(FinalSources(relevant_passages))>>
                             ELSE Append(events, AnswerChunk(d))
         ELSE UNCHANGED <<full_answer_list, events>>
    /\ UNCHANGED <<history, raw_history, pc, turns, user_query, plan, retrieved,
                   reranked, relevant_passages, stream_state, final_answer,
                   clar_idx, outcome, history0, raw0>>

\* Faulty variant of StreamDelivers: the chunk is yielded but not collected
\* into full_answer_list.
StreamDelivers_NotCollected(d) ==
    /\ pc \in {"responding", "pivoting", "answering"}
    /\ stream_state = "open"
    /\ Append(upstream, d) \in StreamPrefixes
    /\ upstream' = Append(upstream, d)
    /\ IF HasContent(d)
         THEN /\ events' = Append(events, AnswerChunk(d))
              /\ UNCHANGED full_answer_list
         ELSE UNCHANGED <<full_answer_list, events>>
    /\ UNCHANGED <<history, raw_history, pc, turns, user_query, plan, retrieved,
                   reranked, relevant_passages, stream_state, final_answer,
                   clar_idx, outcome, history0, raw0>>

\* Faulty variant of StreamDelivers: the text accumulated so far is yielded
\* instead of the chunk that arrived.
StreamDelivers_Accumulated(d) ==
    /\ pc \in {"responding", "pivoting", "answering"}
    /\ stream_state = "open"
    /\ Append(upstream, d) \in StreamPrefixes
    /\ upstream' = Append(upstream, d)
    /\ IF HasContent(d)
         THEN /\ full_answer_list' = Append(full_answer_list, d)
              /\ events' = Append(events, AnswerChunk(Join(full_answer_list')))
         ELSE UNCHANGED <<full_answer_list, events>>
    /\ UNCHANGED <<history, raw_history, pc, turns, user_query, plan, retrieved,
                   reranked, relevant_passages, stream_state, final_answer,
                   clar_idx, outcome, history0, raw0>>

\* The open LLM stream delivers delta d.  A delta with content is yielded by
\* AsyncLLMService.stream, appended to full_answer_list and yielded to the
\* consumer as an answer_chunk; a delta without content is skipped.
StreamDelivers(d) ==
    /\ pc \in {"responding", "pivoting", "answering"}
    /\ stream_state = "open"
    /\ Append(upstream, d) \in StreamPrefixes
    /\ upstream' = Append(upstream, d)
    /\ IF HasContent(d)
         THEN /\ full_answer_list' = Append(full_answer_list, d)
              /\ events' = Append(events, AnswerChunk(d))
         ELSE UNCHANGED <<full_answer_list, events>>
    /\ UNCHANGED <<history, raw_history, pc, turns, user_query, plan, retrieved,
                   reranked, relevant_passages, stream_state, final_answer,
                   clar_idx, outcome, history0, raw0>>

\* Faulty variant of StreamFails: the chunks already yielded are dropped from
\* what the consumer holds and only the error is left.
StreamFails_Retracts(err) ==
    /\ pc \in {"responding", "pivoting", "answering"}
    /\ stream_state = "open"
    /\ stream_state' = "failed"
    /\ events' = <<ErrorEvent(err)>>
    /\ pc' = "error"
    /\ UNCHANGED <<history, raw_history, turns, user_query, plan, retrieved,
                   reranked, relevant_passages, upstream, full_answer_list,
                   final_answer, clar_idx, outcome, history0, raw0>>

\* Faulty variant of StreamFails: the failure is reported from inside the
\* streaming loop and the loop goes on.
StreamFails_Continues(err) ==
    /\ pc \in {"responding", "pivoting", "answering"}
    /\ stream_state = "open"
    /\ events' = Append(events, ErrorEvent(err))
    /\ UNCHANGED <<history, raw_history, pc, turns, user_query, plan, retrieved,
                   reranked, relevant_passages, upstream, stream_state,
                   full_answer_list, final_answer, clar_idx, outcome, history0,
                   raw0>>

\* The open LLM stream raises, before its first delta or between two deltas.
StreamFails(err) ==
    /\ pc \in {"responding", "pivoting", "answering"}
    /\ stream_state = "open"
    /\ stream_state' = "failed"
    /\ RaiseError(err)
    /\ UNCHANGED <<history, raw_history, turns, user_query, plan, retrieved,
                   reranked, relevant_passages, upstream, full_answer_list,
                   final_answer, clar_idx, outcome, history0, raw0>>

\* The responder stream of a non-retrieval kind ends: both logs are appended
\* and truncated, and the generator ends.
ResponderStreamEnds ==
    /\ pc = "responding"
    /\ stream_state = "open"
    /\ upstream \in Streams
    /\ stream_state' = "ended"
    /\ LET full_answer == Join(full_answer_list)
       IN  /\ history' = Truncate(Append(history, <<user_query, full_answer>>))
           /\ raw_history' = Truncate(Append(raw_history, <<user_query, full_answer>>))
    /\ Return("completed")
    /\ UNCHANGED <<turns, user_query, plan, retrieved, reranked, relevant_passages,
                   upstream, full_answer_list, final_answer, clar_idx, events,
                   history0, raw0>>

\* The pivot stream ends: both logs are appended and the generator returns.
PivotStreamEnds ==
    /\ pc = "pivoting"
    /\ stream_state = "open"
    /\ upstream \in Streams
    /\ stream_state' = "ended"
    /\ LET full_answer == Join(full_answer_list)
       IN  /\ raw_history' = Append(raw_history, <<user_query, full_answer>>)
           /\ history' = Append(history, <<user_query, full_answer>>)
    /\ Return("completed")
    /\ UNCHANGED <<turns, user_query, plan, retrieved, reranked, relevant_passages,
                   upstream, full_answer_list, final_answer, clar_idx, events,
                   history0, raw0>>

\* Faulty variant of AnswerStreamEnds: the sources are computed but never
\* yielded.
AnswerStreamEnds_NoFinalData ==
    /\ pc = "answering"
    /\ stream_state = "open"
    /\ upstream \in Streams
    /\ stream_state' = "ended"
    /\ final_answer' = Strip(Join(full_answer_list))
    /\ pc' = "final_data"
    /\ UNCHANGED <<history, raw_history, turns, user_query, plan, retrieved,
                   reranked, relevant_passages, upstream, full_answer_list,
                   clar_idx, events, outcome, history0, raw0>>

\* The answer stream ends: the answer is joined and stripped, the sources are
\* computed and final_data is yielded.
AnswerStreamEnds ==
    /\ pc = "answering"
    /\ stream_state = "open"
    /\ upstream \in Streams
    /\ stream_state' = "ended"
    /\ final_answer' = Strip(Join(full_answer_list))
    /\ events' = Append(events, FinalData(FinalSources(relevant_passages)))
    /\ pc' = "final_data"
    /\ UNCHANGED <<history, raw_history, turns, user_query, plan, retrieved,
                   reranked, relevant_passages, upstream, full_answer_list,
                   clar_idx, outcome, history0, raw0>>

\* The generator resumes after final_data: the verbatim log is appended and
\* the summarizer is awaited.
FinalDataResumes ==
    /\ pc = "final_data"
    /\ raw_history' = Append(raw_history, <<user_query, final_answer>>)
    /\ pc' = "summarizing"
    /\ UNCHANGED <<history, turns, user_query, plan, retrieved, reranked,
                   relevant_passages, upstream, stream_state, full_answer_list,
                   final_answer, clar_idx, events, outcome, history0, raw0>>

\* The summarizer returns summary: the summarized log is appended, both logs
\* are truncated and the generator ends.
SummarizerReturns(summary) ==
    /\ pc = "summarizing"
    /\ history' = Truncate(Append(history, <<user_query, Strip(summary)>>))
    /\ raw_history' = Truncate(raw_history)
    /\ Return("completed")
    /\ UNCHANGED <<turns, user_query, plan, retrieved, reranked, relevant_passages,
                   upstream, stream_state, full_answer_list, final_answer,
                   clar_idx, events, history0, raw0>>

\* The summarizer call raises.
SummarizerFails(err) ==
    /\ pc = "summarizing"
    /\ RaiseError(err)
    /\ UNCHANGED <<history, raw_history, turns, user_query, plan, retrieved,
                   reranked, relevant_passages, upstream, stream_state,
                   full_answer_list, final_answer, clar_idx, outcome, history0,
                   raw0>>

\* Faulty variant: the candidates are handed to the reranker without the
\* test for an empty retrieval.
RetrieverReturns_NoEmptyCheck(r) ==
    /\ pc = "retrieving"
    /\ retrieved' = r
    /\ pc' = "reranking"
    /\ rerank_history' = <<history>>
    /\ UNCHANGED <<history, raw_history, turns, user_query, plan, reranked,
                   relevant_passages, upstream, stream_state, full_answer_list,
                   final_answer, clar_idx, outcome, history0, raw0, events,
                   prompt_history>>

\* The retriever returns candidates r: without candidates the canned answer is
\* yielded, otherwise the reranker is called with self.history and awaited.
RetrieverReturns(r) ==
    /\ pc = "retrieving"
    /\ retrieved' = r
    /\ IF r = <<>>
         THEN /\ events' = Append(events,
                               AnswerChunk(ResponseTemplates.no_passages_found))
              /\ pc' = "no_passages"
              /\ UNCHANGED rerank_history
         ELSE /\ pc' = "reranking"
              /\ rerank_history' = <<history>>
              /\ UNCHANGED events
    /\ UNCHANGED prompt_history
    /\ UNCHANGED <<history, raw_history, turns, user_query, plan, reranked,
                   relevant_passages, upstream, stream_state, full_answer_list,
                   final_answer, clar_idx, outcome, history0, raw0>>

\* The retriever call raises.
RetrieverFails(err) ==
    /\ pc = "retrieving"
    /\ RaiseError(err)
    /\ UNCHANGED <<history, raw_history, turns, user_query, plan, retrieved,
                   reranked, relevant_passages, upstream, stream_state,
                   full_answer_list, final_answer, clar_idx, outcome, history0,
                   raw0>>

\* Faulty variant: the generator never returns after the canned no-passages
\* answer.
NoPassagesResumes_Parked ==
    /\ pc = "no_passages"
    /\ UNCHANGED agentVars

\* The generator resumes after the canned no-passages answer and returns.
NoPassagesResumes ==
    /\ pc = "no_passages"
    /\ Return("completed")
    /\ UNCHANGED <<history, raw_history, turns, user_query, plan, retrieved,
                   reranked, relevant_passages, upstream, stream_state,
                   full_answer_list, final_answer, clar_idx, events, history0,
                   raw0>>

\* The reranker returns with per-candidate outcomes sc: the relevance cut is
\* taken and the pivot stream is opened, or the synthesis prompt is built with
\* self.history and the answer stream is opened.
RerankReturns(sc) ==
    /\ pc = "reranking"
    /\ reranked' = RerankResult(retrieved, sc)
    /\ relevant_passages' = RelevantPassages(reranked')
    /\ stream_state' = "open"
    /\ pc' = IF relevant_passages' = <<>> THEN "pivoting" ELSE "answering"
    /\ prompt_history' = IF relevant_passages' = <<>> THEN <<>> ELSE <<history>>
    /\ UNCHANGED rerank_history
    /\ UNCHANGED <<history, raw_history, turns, user_query, plan, retrieved,
                   upstream, full_answer_list, final_answer, clar_idx, events,
                   outcome, history0, raw0>>

\* rerank raises (prompt building for a candidate is outside its try block).
RerankFails(err) ==
    /\ pc = "reranking"
    /\ RaiseError(err)
    /\ UNCHANGED <<history, raw_history, turns, user_query, plan, retrieved,
                   reranked, relevant_passages, upstream, stream_state,
                   full_answer_list, final_answer, clar_idx, outcome, history0,
                   raw0>>

\* The generator resumes after the error event and returns.
ErrorResumes ==
    /\ pc = "error"
    /\ Return("errored")
    /\ UNCHANGED <<history, raw_history, turns, user_query, plan, retrieved,
                   reranked, relevant_passages, upstream, stream_state,
                   full_answer_list, final_answer, clar_idx, events, history0,
                   raw0>>

\* The consumer stops iterating or the task is cancelled while the generator
\* is parked: GeneratorExit or CancelledError is raised at the suspension
\* point; neither is an Exception, so no except block runs.
Cancel ==
    /\ pc \notin {"idle", "done"}
    /\ Return("cancelled")
    /\ UNCHANGED <<history, raw_history, turns, user_query, plan, retrieved,
                   reranked, relevant_passages, upstream, stream_state,
                   full_answer_list, final_answer, clar_idx, events, history0,
                   raw0>>

\* The steps of a turn in progress: what the event loop, the backends and the
\* consumer's iteration make happen once process_query has been called.
TurnStep ==
    \/ \E p \in Plans : PlannerReturns(p) /\ UNCHANGED quietVars
    \/ \E err \in Errors : PlannerFails(err) /\ UNCHANGED quietVars
    \/ ClarificationResumes /\ UNCHANGED quietVars
    \/ \E d \in Deltas : StreamDelivers(d) /\ UNCHANGED quietVars
    \/ \E err \in Errors : StreamFails(err) /\ UNCHANGED quietVars
    \/ ResponderStreamEnds /\ UNCHANGED quietVars
    \/ PivotStreamEnds /\ UNCHANGED quietVars
    \/ AnswerStreamEnds /\ UNCHANGED quietVars
    \/ FinalDataResumes /\ UNCHANGED quietVars
    \/ \E summary \in Summaries : SummarizerReturns(summary) /\ UNCHANGED quietVars
    \/ \E err \in Errors : SummarizerFails(err) /\ UNCHANGED quietVars
    \/ \E r \in Retrievals : RetrieverReturns(r) /\ UNCHANGED otherVars
    \/ \E err \in Errors : RetrieverFails(err) /\ UNCHANGED quietVars
    \/ NoPassagesResumes /\ UNCHANGED quietVars
    \/ \E sc \in [1..Len(retrieved) -> JudgeOutcomes] : RerankReturns(sc) /\ UNCHANGED otherVars
    \/ \E err \in Errors : RerankFails(err) /\ UNCHANGED quietVars
    \/ ErrorResumes /\ UNCHANGED quietVars

\* Turns that nobody cancels.
UncancelledNext ==
    \/ ProcessQuery /\ UNCHANGED otherVars
    \/ TurnStep

Next ==
    \/ UncancelledNext
    \/ Cancel /\ UNCHANGED quietVars

Spec == Init /\ [][Next]_vars

\* Every backend call eventually returns or fails, every stream is finite and
\* the consumer keeps iterating: a step of the turn that stays possible is
\* eventually taken.  Nothing obliges a caller to start another turn.
LiveSpec == Init /\ [][UncancelledNext]_vars /\ WF_vars(TurnStep)

(***************************************************************************)
(* What a turn showed its consumer                                         *)
(***************************************************************************)
OfType(t) == SelectSeq(events, LAMBDA e : e.type = t)

\* The contents of the answer_chunk events of the turn, in order.
ChunkContents == [i \in 1..Len(OfType("answer_chunk")) |-> OfType("answer_chunk")[i].content]

NumFinalData == Len(OfType("final_data"))

ErrorEmitted == \E i \in 1..Len(events) : events[i].type = "error"

TurnCompleted == pc = "done" /\ outcome = "completed"

\* The turn took the synthesis branch and its answer stream completed.
SynthesisCompleted ==
    /\ plan.query_type = "IN_DOMAIN_GOVT_SERVICE_INQUIRY"
    /\ retrieved # <<>>
    /\ relevant_passages # <<>>
    /\ stream_state = "ended"

\* The last entry of the verbatim log is this turn's (queries are the turns'
\* ordinals, so no older entry carries user_query).
AppendedThisTurn == raw_history # <<>> /\ Last(raw_history)[1] = user_query

\* log is log0 with exactly one entry of this turn appended, truncated or not.
AppendedOnce(log, log0) ==
    /\ log # <<>>
    /\ Last(log)[1] = user_query
    /\ \/ log = Append(log0, Last(log))
       \/ log = Tail(Append(log0, Last(log)))

(***************************************************************************)
(* C1..C10: conversation memory and the event stream of a turn             *)
(***************************************************************************)
\* C1: after every turn that completes successfully the verbatim log and the
\* summarized log have the same length, and that length is at most
\* history_window.  Stated as the step the claim needs: a successful turn that
\* starts with both logs aligned and within the window ends with both logs
\* aligned and within the window.
C1_LogsEqualWithinWindow ==
    (/\ TurnCompleted
     /\ Len(raw0) = Len(history0)
     /\ Len(history0) <= HistoryWindow)
    => (/\ Len(raw_history) = Len(history)
        /\ Len(history) <= HistoryWindow)

\* C2: a turn that emits an error event leaves the verbatim log and the
\* summarized log equal to their values before the turn started.
C2_NoMutationOnError ==
    ErrorEmitted => (history = history0 /\ raw_history = raw0)

\* C3: every turn that ends completed has appended exactly one
\* (user_query, reply) pair to the verbatim log and exactly one to the
\* summarized log.
C3_AppendedExactlyOnce ==
    TurnCompleted => (AppendedOnce(raw_history, raw0) /\ AppendedOnce(history, history0))

\* C4: a cancelled turn leaves both logs equal to their values before the
\* turn started.
C4_NoAppendOnCancel ==
    outcome = "cancelled" => (history = history0 /\ raw_history = raw0)

\* C5: at every observable point of a turn the verbatim log and the summarized
\* log have the same length.
C5_LogsAlignedEverywhere == Len(raw_history) = Len(history)

\* C6: a turn emits exactly one final_data event when it takes the synthesis
\* branch and its answer stream completes, and none on any other branch; at
\* no point has a turn emitted more than one.
C6_FinalDataCount ==
    /\ NumFinalData <= 1
    /\ pc = "done" => NumFinalData = (IF SynthesisCompleted THEN 1 ELSE 0)

\* C6 witness: a completed synthesis turn with its single final_data event.
C6_Witness == TurnCompleted /\ SynthesisCompleted /\ NumFinalData = 1

\* C7: no answer_chunk event follows a final_data event.
C7_FinalDataAfterChunks ==
    \A i \in 1..Len(events) : \A j \in 1..Len(events) :
        (i < j /\ events[i].type = "final_data") => events[j].type # "answer_chunk"

\* C7 witness: final_data has been emitted after at least two answer chunks.
C7_Witness ==
    /\ Len(events) >= 3
    /\ events[Len(events)].type = "final_data"
    /\ events[1].type = "answer_chunk"
    /\ events[2].type = "answer_chunk"

\* C8: an error event is the last event of its turn.
C8_ErrorIsLast ==
    \A i \in 1..Len(events) : events[i].type = "error" => i = Len(events)

\* C8 witness: a turn that ended with an error event after answer chunks.
C8_Witness ==
    /\ pc = "done"
    /\ outcome = "errored"
    /\ Len(events) >= 2
    /\ events[1].type = "answer_chunk"
    /\ events[Len(events)].type = "error"

C10_ChunksFollowStream ==
    stream_state # "none" => ChunkContents = SelectSeq(upstream, HasContent)

\* C10 witness: a stream that has ended after several content chunks and a
\* chunk without content.
C10_Witness ==
    /\ stream_state = "ended"
    /\ Len(ChunkContents) >= 2
    /\ Len(upstream) > Len(ChunkContents)

(***************************************************************************)
(* The finalization step of the synthesis branch, taken on its own         *)
(* (agent.py, step 6): the sources of any list of kept passages.           *)
(***************************************************************************)
MaxKept == 3

SeqsUpTo(S, n) == UNION {[1..k -> S] : k \in 0..n}

\* Passages the relevance cut may keep: two share a url, two share a
\* passage_id, one has no url, and "10" sorts before "9" as a string.
KeptPool ==
    {[passage_id |-> <<"1", "0">>, url |-> <<"u", "b">>],
     [passage_id |-> <<"9">>,      url |-> <<>>],
     [passage_id |-> <<"1">>,      url |-> <<"u", "b">>],
     [passage_id |-> <<"9">>,      url |-> <<"u", "a">>]}

SourcesInit ==
    /\ AgentInit
    /\ RerankerOff
    /\ RetrieverOff
    /\ TokenManagerOff
    /\ src_pc = "input"
    /\ kept_passages \in SeqsUpTo(KeptPool, MaxKept)
    /\ final_sources = <<>>

ComputeSources ==
    /\ src_pc = "input"
    /\ final_sources' = FinalSources(kept_passages)
    /\ src_pc' = "done"
    /\ UNCHANGED <<kept_passages, agentVars, rrVars, rtVars, tmVars>>

SourcesNext == ComputeSources

SourcesSpec == SourcesInit /\ [][SourcesNext]_vars

KeptUrls == {p.url : p \in {q \in Range(kept_passages) : q.url # <<>>}}

KeptIds == {p.passage_id : p \in Range(kept_passages)}

StrictlyIncreasing(s, lo, hi) == \A i \in lo..(hi - 1) : LexLess(s[i], s[i + 1])

\* C11: the sources are the distinct urls of the kept passages, sorted,
\* followed by their distinct passage ids, sorted: each partition is strictly
\* increasing (so free of duplicates), every url comes before every id, and
\* a passage without url contributes its id only.
C11_SourcesPartitioned ==
    src_pc = "done" =>
        LET k == Cardinality(KeptUrls)
            n == Len(final_sources)
        IN  /\ n = k + Cardinality(KeptIds)
            /\ {final_sources[i] : i \in 1..k} = KeptUrls
            /\ {final_sources[i] : i \in (k + 1)..n} = KeptIds
            /\ StrictlyIncreasing(final_sources, 1, k)
            /\ StrictlyIncreasing(final_sources, k + 1, n)

\* Three kept passages, one without url, two sharing a url and two an id.
C11_Witness ==
    /\ src_pc = "done"
    /\ Len(kept_passages) = 3
    /\ \E i \in 1..3 : kept_passages[i].url = <<>>
    /\ Cardinality(KeptUrls) = 2
    /\ Cardinality(KeptIds) = 2
    /\ Len(final_sources) = 4

(***************************************************************************)
(* ParallelReranker (retriver/reranker.py) and the semaphore its           *)
(* invocations share (agent.py, __init__).  rerank() creates one           *)
(* _score_one_passage task per candidate and awaits asyncio.gather; a task *)
(* builds its prompt, enters `async with self.semaphore`, awaits the judge *)
(* call and leaves the block on every way out.  A task is                  *)
(*   "new"        created by gather, not run yet                           *)
(*   "waiting"    parked in Semaphore.acquire                              *)
(*   "granted"    handed a permit by a release, not resumed yet            *)
(*   "calling"    inside invoke_structured, holding a permit               *)
(*   "cancelling" cancelled while it holds a permit, not resumed yet       *)
(*   "done"       returned (ret = 0 stands for None)                       *)
(*   "cancelled"  ended by CancelledError                                  *)
(*   "raised"     ended by another exception                               *)
(***************************************************************************)
MaxConcurrency == 2

\* Scores the judge may give (_SinglePassageScore.score).
Scores == {2, 3}

\* The score given to a candidate that did not fit the context window.
OverflowScore == 3

Sem == [value |-> sem_value, waiters |-> sem_waiters, task |-> rr_task]

SetSem(sem) ==
    /\ sem_value' = sem.value
    /\ sem_waiters' = sem.waiters
    /\ rr_task' = sem.task

Remove(waiters, t) == SelectSeq(waiters, LAMBDA x : x # t)

\* Semaphore.locked()
Locked(sem) == sem.value = 0 \/ sem.waiters # <<>>

\* Faulty variant: a release wakes no waiter.
WakeUpNext_Nobody(sem) == sem

\* Semaphore._wake_up_next(): the oldest waiter still pending gets a permit.
WakeUpNext(sem) ==
    LET pending == {k \in 1..Len(sem.waiters) : sem.task[sem.waiters[k]].st = "waiting"}
    IN  IF pending = {} THEN sem
        ELSE LET k == CHOOSE j \in pending : \A i \in pending : j <= i
             IN  [sem EXCEPT !.value = @ - 1, !.task[sem.waiters[k]].st = "granted"]

\* Semaphore.release()
Release(sem) == WakeUpNext([sem EXCEPT !.value = @ + 1])

TasksOf(inv) == {t \in Tasks : t[1] = inv /\ t[2] <= rr_n[inv]}

Finished(t) == rr_task[t].st \in {"done", "cancelled", "raised"}

HoldsPermit(t) == rr_task[t].st \in {"granted", "calling", "cancelling"}

\* Judge calls begun and not yet left (one being cancelled counts).
InFlight == {t \in Tasks : rr_task[t].st \in {"calling", "cancelling"}}

RerankInit ==
    /\ AgentInit
    /\ SourcesOff
    /\ RetrieverOff
    /\ TokenManagerOff
    /\ rr_limit \in 1..MaxConcurrency
    /\ sem_value = rr_limit
    /\ sem_waiters = <<>>
    /\ rr_pc = [inv \in Invocations |-> "idle"]
    /\ rr_n = [inv \in Invocations |-> 0]
    /\ rr_task = [t \in Tasks |-> NoTask]
    /\ rr_result = [inv \in Invocations |-> <<>>]

\* rerank(..., passages) is called with n candidates.
Rerank(inv, n) ==
    /\ rr_pc[inv] = "idle"
    /\ \A other \in Invocations \ {inv} : n + rr_n[other] <= MaxCandidates
    /\ rr_n' = [rr_n EXCEPT ![inv] = n]
    /\ rr_pc' = [rr_pc EXCEPT ![inv] = IF n = 0 THEN "returned" ELSE "gathering"]
    /\ rr_task' = [t \in Tasks |->
                     IF t[1] = inv /\ t[2] <= n
                     THEN [NoTask EXCEPT !.st = "new"] ELSE rr_task[t]]
    /\ UNCHANGED <<rr_limit, sem_value, sem_waiters, rr_result,
                   agentVars, srcVars, rtVars, tmVars>>

\* Faulty variant: the task enters the block without a permit check.
StartTask_NoSemaphore(t) ==
    /\ rr_task[t].st = "new"
    /\ \A u \in TasksOf(t[1]) : u[2] < t[2] => rr_task[u].st # "new"
    /\ rr_task' = [rr_task EXCEPT ![t].st = "calling"]
    /\ UNCHANGED <<rr_limit, sem_value, sem_waiters, rr_pc, rr_n, rr_result,
                   agentVars, srcVars, rtVars, tmVars>>

\* A task runs up to its first suspension: the prompt is built and
\* Semaphore.acquire either takes a permit or parks the task.
StartTask(t) ==
    /\ rr_task[t].st = "new"
    /\ \A u \in TasksOf(t[1]) : u[2] < t[2] => rr_task[u].st # "new"
    /\ IF Locked(Sem)
       THEN /\ sem_waiters' = Append(sem_waiters, t)
            /\ rr_task' = [rr_task EXCEPT ![t].st = "waiting"]
            /\ UNCHANGED sem_value
       ELSE /\ sem_value' = sem_value - 1
            /\ rr_task' = [rr_task EXCEPT ![t].st = "calling"]
            /\ UNCHANGED sem_waiters
    /\ UNCHANGED <<rr_limit, rr_pc, rr_n, rr_result, agentVars, srcVars, rtVars, tmVars>>

\* A task that was handed a permit resumes in acquire and starts its call.
Resume(t) ==
    /\ rr_task[t].st = "granted"
    /\ LET sem == [Sem EXCEPT !.waiters = Remove(@, t), !.task[t].st = "calling"]
       IN  SetSem(IF sem.value > 0 THEN WakeUpNext(sem) ELSE sem)
    /\ UNCHANGED <<rr_limit, rr_pc, rr_n, rr_result, agentVars, srcVars, rtVars, tmVars>>

\* The judge returns a score; the task returns a RerankedPassage.
JudgeScores(t, score) ==
    /\ rr_task[t].st = "calling"
    /\ SetSem(Release([Sem EXCEPT !.task[t] =
                 [st |-> "done", call |-> "scored", ret |-> score]]))
    /\ UNCHANGED <<rr_limit, rr_pc, rr_n, rr_result, agentVars, srcVars, rtVars, tmVars>>

\* Faulty variant: a candidate that did not fit is dropped.
JudgeOverflows_Omitted(t) ==
    /\ rr_task[t].st = "calling"
    /\ SetSem(Release([Sem EXCEPT !.task[t] =
                 [st |-> "done", call |-> "overflow", ret |-> 0]]))
    /\ UNCHANGED <<rr_limit, rr_pc, rr_n, rr_result, agentVars, srcVars, rtVars, tmVars>>

\* The judge call ends in ContextLengthExceededError.
JudgeOverflows(t) ==
    /\ rr_task[t].st = "calling"
    /\ SetSem(Release([Sem EXCEPT !.task[t] =
                 [st |-> "done", call |-> "overflow",
                  ret |-> OverflowScore]]))
    /\ UNCHANGED <<rr_limit, rr_pc, rr_n, rr_result, agentVars, srcVars, rtVars, tmVars>>

\* Faulty variant: the handler returns without leaving the block.
JudgeFails_KeepsPermit(t) ==
    /\ rr_task[t].st = "calling"
    /\ rr_task' = [rr_task EXCEPT ![t] =
                     [st |-> "done", call |-> "error", ret |-> 0]]
    /\ UNCHANGED <<rr_limit, sem_value, sem_waiters, rr_pc, rr_n, rr_result,
                   agentVars, srcVars, rtVars, tmVars>>

\* Faulty variant: the exception leaves the task.
JudgeFails_Propagates(t) ==
    /\ rr_task[t].st = "calling"
    /\ SetSem(Release([Sem EXCEPT !.task[t] =
                 [st |-> "raised", call |-> "error", ret |-> 0]]))
    /\ UNCHANGED <<rr_limit, rr_pc, rr_n, rr_result, agentVars, srcVars, rtVars, tmVars>>

\* The judge call ends in any other Exception; the task returns None.
JudgeFails(t) ==
    /\ rr_task[t].st = "calling"
    /\ SetSem(Release([Sem EXCEPT !.task[t] =
                 [st |-> "done", call |-> "error", ret |-> 0]]))
    /\ UNCHANGED <<rr_limit, rr_pc, rr_n, rr_result, agentVars, srcVars, rtVars, tmVars>>

\* The awaiting rerank() is cancelled: gather cancels every child not done.
\* A child not run yet or parked in acquire ends without touching the
\* semaphore; one that holds a permit gives it back when it next runs.
CancelRerank(inv) ==
    /\ rr_pc[inv] = "gathering"
    /\ rr_pc' = [rr_pc EXCEPT ![inv] = "cancelling"]
    /\ rr_task' = [t \in Tasks |->
                     IF t \notin TasksOf(inv) THEN rr_task[t]
                     ELSE IF rr_task[t].st \in {"new", "waiting"}
                          THEN [rr_task[t] EXCEPT !.st = "cancelled"]
                     ELSE IF rr_task[t].st \in {"granted", "calling"}
                          THEN [rr_task[t] EXCEPT !.st = "cancelling"]
                     ELSE rr_task[t]]
    /\ sem_waiters' = SelectSeq(sem_waiters,
                         LAMBDA t : ~(t[1] = inv /\ rr_task[t].st = "waiting"))
    /\ UNCHANGED <<rr_limit, sem_value, rr_n, rr_result, agentVars, srcVars, rtVars, tmVars>>

\* CancelledError reaches a task that holds a permit: out of acquire or out
\* of the `async with` block, the permit goes back.
TaskCancelled(t) ==
    /\ rr_task[t].st = "cancelling"
    /\ SetSem(Release([Sem EXCEPT !.waiters = Remove(@, t),
                                  !.task[t].st = "cancelled"]))
    /\ UNCHANGED <<rr_limit, rr_pc, rr_n, rr_result, agentVars, srcVars, rtVars, tmVars>>

\* results of gather, None (0) included, in the order of the candidates
GatherResults(inv) ==
    [i \in 1..rr_n[inv] |-> [idx |-> i, score |-> rr_task[<<inv, i>>].ret]]

\* successful_results = [res for res in results if res is not None]
SuccessfulResults(results) == SelectSeq(results, LAMBDA res : res.score # 0)

\* gather is over: on the first exception of a child, else when every child
\* is done; rerank() returns the filtered list or ends with the exception.
GatherCompletes(inv) ==
    /\ rr_pc[inv] \in {"gathering", "cancelling"}
    /\ \/ \E t \in TasksOf(inv) : rr_task[t].st = "raised"
       \/ \A t \in TasksOf(inv) : Finished(t)
    /\ rr_pc' = [rr_pc EXCEPT ![inv] =
                    IF \E t \in TasksOf(inv) : rr_task[t].st = "raised" THEN "raised"
                    ELSE IF rr_pc[inv] = "cancelling" THEN "cancelled"
                    ELSE "returned"]
    /\ rr_result' = [rr_result EXCEPT ![inv] =
                    IF rr_pc'[inv] = "returned"
                    THEN SuccessfulResults(GatherResults(inv)) ELSE <<>>]
    /\ UNCHANGED <<rr_limit, sem_value, sem_waiters, rr_n, rr_task,
                   agentVars, srcVars, rtVars, tmVars>>

RerankNext ==
    \/ \E inv \in Invocations, n \in 0..MaxCandidates : Rerank(inv, n)
    \/ \E t \in Tasks : StartTask(t)
    \/ \E t \in Tasks : Resume(t)
    \/ \E t \in Tasks, score \in Scores : JudgeScores(t, score)
    \/ \E t \in Tasks : JudgeOverflows(t)
    \/ \E t \in Tasks : JudgeFails(t)
    \/ \E inv \in Invocations : CancelRerank(inv)
    \/ \E t \in Tasks : TaskCancelled(t)
    \/ \E inv \in Invocations : GatherCompletes(inv)

RerankSpec == RerankInit /\ [][RerankNext]_vars

Ended(inv) == rr_pc[inv] \in {"returned", "cancelled", "raised"}

\* C12: whatever the number of candidates and however two invocations
\* overlap, at most rr_limit judge calls are in flight.
C12_BoundedJudgeCalls == Cardinality(InFlight) <= rr_limit

\* Both invocations are gathering, the limit is reached with a call of each
\* in flight, and a further task waits for a permit.
C12_Witness ==
    /\ rr_pc[1] = "gathering" /\ rr_pc[2] = "gathering"
    /\ Cardinality(InFlight) = rr_limit
    /\ \E t \in InFlight : t[1] = 1
    /\ \E t \in InFlight : t[1] = 2
    /\ \E t \in Tasks : rr_task[t].st = "waiting"

PermitsHeld == Cardinality({t \in Tasks : HoldsPermit(t)})

InProgress(inv) == rr_pc[inv] \in {"gathering", "cancelling"}

\* C13: every permit is either in the semaphore or with a task that will
\* give it back; a rerank invocation that has ended, whatever the outcomes
\* of its tasks, has left none of its tasks holding or awaiting a permit, and
\* once no invocation is in progress all rr_limit permits are available.
C13_PermitsRestored ==
    /\ sem_value + PermitsHeld = rr_limit
    /\ \A inv \in Invocations : Ended(inv) =>
          \A t \in TasksOf(inv) : ~HoldsPermit(t) /\ rr_task[t].st # "waiting"
    /\ (\A inv \in Invocations : ~InProgress(inv)) =>
          sem_value = rr_limit /\ sem_waiters = <<>>

\* One invocation has returned after a failure and an overflow, the other
\* has ended cancelled with a cancelled task, and the permits are all back.
C13_Witness ==
    /\ rr_pc[1] = "returned"
    /\ \E t \in TasksOf(1) : rr_task[t].call = "error"
    /\ \E t \in TasksOf(1) : rr_task[t].call = "overflow"
    /\ rr_pc[2] = "cancelled"
    /\ \E t \in TasksOf(2) : rr_task[t].st = "cancelled"
    /\ sem_value = rr_limit

EntriesOf(inv, i) == {k \in 1..Len(rr_result[inv]) : rr_result[inv][k].idx = i}

Answered(inv) ==
    {i \in 1..rr_n[inv] : rr_task[<<inv, i>>].call \in {"scored", "overflow"}}

\* C15: rerank never ends with the exception of a judge call; what it
\* returns has exactly one entry for each candidate whose call gave a score
\* or overflowed and none for the others, so a batch in which every call
\* failed returns the empty list.
C15_FailuresOmitted ==
    \A inv \in Invocations :
        /\ rr_pc[inv] # "raised"
        /\ rr_pc[inv] = "returned" =>
              /\ Len(rr_result[inv]) = Cardinality(Answered(inv))
              /\ {rr_result[inv][k].idx : k \in 1..Len(rr_result[inv])} = Answered(inv)
              /\ (Answered(inv) = {} => rr_result[inv] = <<>>)

\* One batch lost a candidate to a failure and kept its scored sibling;
\* the other batch, whose only call failed, returned the empty list.
C15_Witness ==
    /\ rr_pc[1] = "returned" /\ rr_n[1] = 2
    /\ \E t \in TasksOf(1) : rr_task[t].call = "error"
    /\ \E t \in TasksOf(1) : rr_task[t].call = "scored"
    /\ Len(rr_result[1]) = 1
    /\ rr_pc[2] = "returned" /\ rr_n[2] = 1
    /\ rr_task[<<2, 1>>].call = "error"
    /\ rr_result[2] = <<>>

(***************************************************************************)
(* The vector retrievers.  DynamicVectorRetriever.retrieve_passages        *)
(* (evaluation/retriver.py, "rrf") queries one collection per active       *)
(* pipeline, fuses the ranked lists by Reciprocal Rank Fusion, cuts the    *)
(* ranking and reads the selected passages from the passage store.         *)
(* VectorRetriever.get_unique_passages_from_all_collections                *)
(* (retriver/vector_search.py, "union", the one ChatAgent builds) queries  *)
(* every collection, unites the passage ids and reads them from the        *)
(* passage collection.  The shard queries hold no await, so they run one   *)
(* after the other in the order of the shards.  Fused scores are kept      *)
(* exact: every 1 / (rrf_k + rank) is scaled by a common multiple.         *)
(***************************************************************************)
RrfK == 60

MaxPassagesToSelect == 3

\* Entries a collection returns for one query (top_k in the source).
MaxListLen == 2

\* The pipelines named by the model string, in its order.
ActivePipelines == <<"prop", "summ">>

NumShards == Len(ActivePipelines)

\* The value a metadata record holds under the passage-id key.
IntMeta(n) == [kind |-> "int", text |-> <<>>, num |-> n]

StrMeta(t) == [kind |-> "str", text |-> t, num |-> 0]

MetaValues ==
    {IntMeta(1), IntMeta(2), IntMeta(3), StrMeta(<<"9">>), StrMeta(<<"a">>)}

MetaLists == SeqsUpTo(MetaValues, MaxListLen)

Digits == <<"0", "1", "2", "3", "4", "5", "6", "7", "8", "9">>

IsDigit(c) == \E i \in 1..Len(Digits) : Digits[i] = c

DigitValue(c) == (CHOOSE i \in 1..Len(Digits) : Digits[i] = c) - 1

RECURSIVE DigitsValue(_, _)
DigitsValue(t, acc) ==
    IF t = <<>> THEN acc
    ELSE DigitsValue(Tail(t), acc * 10 + DigitValue(Head(t)))

\* int(passage_id_val); ok is FALSE where int() raises ValueError
ToInt(v) ==
    IF v.kind = "int" THEN [ok |-> TRUE, num |-> v.num]
    ELSE LET t == Strip(v.text)
         IN  IF t # <<>> /\ \A i \in 1..Len(t) : IsDigit(t[i])
             THEN [ok |-> TRUE, num |-> DigitsValue(t, 0)]
             ELSE [ok |-> FALSE, num |-> 0]

\* DynamicVectorRetriever._query_collection_async on a reply: (passage_id,
\* rank) pairs, rank being the position in the reply; an id that does not
\* convert is skipped and its rank with it.
RankedResults(metas) ==
    LET converted == [i \in 1..Len(metas) |->
                        [passage_id |-> ToInt(metas[i]).num, rank |-> i,
                         ok |-> ToInt(metas[i]).ok]]
    IN  SelectSeq(converted, LAMBDA e : e.ok)

\* VectorRetriever._query_collection_async on a reply: the ids as they are.
PassageIdList(metas) == SelectSeq(metas, LAMBDA m : m.kind # "none")

QueryResult(impl, metas) ==
    IF impl = "rrf" THEN RankedResults(metas) ELSE PassageIdList(metas)

RECURSIVE Flatten(_)
Flatten(lists) == IF lists = <<>> THEN <<>> ELSE Head(lists) \o Flatten(Tail(lists))

RECURSIVE ProductTo(_)
ProductTo(n) == IF n = 0 THEN 1 ELSE (RrfK + n) * ProductTo(n - 1)

Scale == ProductTo(MaxListLen)

\* 1.0 / (self.rrf_k + rank), scaled
Weight(rank) == Scale \div (RrfK + rank)

RECURSIVE FusedScore(_, _)
\* fused_scores[pid] after the loops over all entries
FusedScore(entries, pid) ==
    IF entries = <<>> THEN 0
    ELSE (IF Head(entries).passage_id = pid THEN Weight(Head(entries).rank) ELSE 0)
         + FusedScore(Tail(entries), pid)

RECURSIVE FirstSeen(_, _)
\* fused_scores.keys(): a dict lists its keys in the order of first insertion
FirstSeen(entries, seen) ==
    IF entries = <<>> THEN <<>>
    ELSE IF Head(entries).passage_id \in seen THEN FirstSeen(Tail(entries), seen)
    ELSE <<Head(entries).passage_id>>
         \o FirstSeen(Tail(entries), seen \cup {Head(entries).passage_id})

RemoveAt(s, i) == SubSeq(s, 1, i - 1) \o SubSeq(s, i + 1, Len(s))

RECURSIVE SortedByScore(_, _)
\* sorted(keys, key=score, reverse=True): stable, so keys of equal score
\* stay in the order they had
SortedByScore(keys, entries) ==
    IF keys = <<>> THEN <<>>
    ELSE LET first == CHOOSE i \in 1..Len(keys) :
                 /\ \A j \in 1..Len(keys) :
                        FusedScore(entries, keys[i]) >= FusedScore(entries, keys[j])
                 /\ \A j \in 1..(i - 1) :
                        FusedScore(entries, keys[j]) < FusedScore(entries, keys[i])
         IN  <<keys[first]>> \o SortedByScore(RemoveAt(keys, first), entries)

Min(a, b) == IF a <= b THEN a ELSE b

\* top_passage_ids of a list of ranked lists
TopPassageIds(lists) ==
    LET entries == Flatten(lists)
        sorted_passage_ids == SortedByScore(FirstSeen(entries, {}), entries)
    IN  SubSeq(sorted_passage_ids, 1, Min(Len(sorted_passage_ids), MaxPassagesToSelect))

\* The rows of the passage store in the store's own order (not by id).
RrfStoreOrder == <<3, 9, 1, 2>>

UnionStoreOrder ==
    <<StrMeta(<<"a">>), IntMeta(3), StrMeta(<<"9">>), IntMeta(1), IntMeta(2)>>

StoreOrder(impl) == IF impl = "rrf" THEN RrfStoreOrder ELSE UnionStoreOrder

Reverse(s) == [i \in 1..Len(s) |-> s[Len(s) + 1 - i]]

\* unique_passage_ids, listed; the order of list(set) does not reach the
\* output, it is held here in the order of the store
UniquePassageIds(lists) ==
    SelectSeq(UnionStoreOrder, LAMBDA id : id \in Range(Flatten(lists)))

SelectIds(impl, lists) ==
    IF impl = "rrf" THEN TopPassageIds(lists) ELSE UniquePassageIds(lists)

\* The sets of requested ids the store may hold a row for: all of them, all
\* but one, none.
Presents(top) ==
    {Range(top)} \cup {Range(top) \ {x} : x \in Range(top)} \cup {{}}

\* The rows the store returns, in its own order or the reverse of it.
StoreRows(impl, present, rev) ==
    SelectSeq(IF rev THEN Reverse(StoreOrder(impl)) ELSE StoreOrder(impl),
              LAMBDA id : id \in present)

\* final_ordered_passages: the selected ids that have a row, in the order
\* of the selection; nothing if the store returned no row
FinalOrderedPassages(top, rows) ==
    IF rows = <<>> THEN <<>>
    ELSE SelectSeq(top, LAMBDA pid : pid \in Range(rows))

\* final_docs: the rows in the order the store returned them
FinalDocs(rows) == rows

RetrieverInit ==
    /\ AgentInit
    /\ SourcesOff
    /\ RerankerOff
    /\ TokenManagerOff
    /\ rt_impl \in {"rrf", "union"}
    /\ rt_pc = "querying"
    /\ rt_replies = <<>>
    /\ rt_lists = <<>>
    /\ rt_top = <<>>
    /\ rt_rows = NoRows
    /\ rt_out = <<>>

\* The next collection answers the query.
ShardQueryReturns(metas) ==
    /\ rt_pc = "querying"
    /\ Len(rt_lists) < NumShards
    /\ rt_replies' = Append(rt_replies, [ok |-> TRUE, metas |-> metas])
    /\ rt_lists' = Append(rt_lists, QueryResult(rt_impl, metas))
    /\ UNCHANGED <<rt_impl, rt_pc, rt_top, rt_rows, rt_out, agentVars, srcVars, rrVars, tmVars>>

\* Faulty variant: the exception of the query leaves the retrieve call.
ShardQueryFails_Propagates ==
    /\ rt_pc = "querying"
    /\ Len(rt_lists) < NumShards
    /\ rt_replies' = Append(rt_replies, [ok |-> FALSE, metas |-> <<>>])
    /\ rt_lists' = Append(rt_lists, <<>>)
    /\ rt_pc' = "raised"
    /\ UNCHANGED <<rt_impl, rt_top, rt_rows, rt_out, agentVars, srcVars, rrVars, tmVars>>

\* The query of the next collection raises: logged, [] returned.
ShardQueryFails ==
    /\ rt_pc = "querying"
    /\ Len(rt_lists) < NumShards
    /\ rt_replies' = Append(rt_replies, [ok |-> FALSE, metas |-> <<>>])
    /\ rt_lists' = Append(rt_lists, <<>>)
    /\ UNCHANGED <<rt_impl, rt_pc, rt_top, rt_rows, rt_out, agentVars, srcVars, rrVars, tmVars>>

\* gather is over: the ids to read are chosen; with none the call returns [].
SelectPassageIds ==
    /\ rt_pc = "querying"
    /\ Len(rt_lists) = NumShards
    /\ rt_top' = SelectIds(rt_impl, rt_lists)
    /\ rt_pc' = IF rt_top' = <<>> THEN "returned" ELSE "selected"
    /\ UNCHANGED <<rt_impl, rt_replies, rt_lists, rt_rows, rt_out,
                   agentVars, srcVars, rrVars, tmVars>>

\* The passage store answers.
StoreReturns(present, rev) ==
    /\ rt_pc = "selected"
    /\ LET rows == StoreRows(rt_impl, present, rev)
       IN  /\ rt_rows' = [ok |-> TRUE, ids |-> rows]
           /\ rt_out' = IF rt_impl = "rrf" THEN FinalOrderedPassages(rt_top, rows)
                        ELSE FinalDocs(rows)
    /\ rt_pc' = "returned"
    /\ UNCHANGED <<rt_impl, rt_replies, rt_lists, rt_top, agentVars, srcVars, rrVars, tmVars>>

\* The passage store raises: retrieve_passages logs and returns [],
\* get_unique_passages_from_all_collections lets the exception out.
StoreFails ==
    /\ rt_pc = "selected"
    /\ rt_rows' = [ok |-> FALSE, ids |-> <<>>]
    /\ rt_pc' = IF rt_impl = "rrf" THEN "returned" ELSE "raised"
    /\ UNCHANGED <<rt_impl, rt_replies, rt_lists, rt_top, rt_out,
                   agentVars, srcVars, rrVars, tmVars>>

RetrieverNext ==
    \/ \E metas \in MetaLists : ShardQueryReturns(metas)
    \/ ShardQueryFails
    \/ SelectPassageIds
    \/ \E present \in Presents(rt_top), rev \in BOOLEAN : StoreReturns(present, rev)
    \/ StoreFails

RetrieverSpec == RetrieverInit /\ [][RetrieverNext]_vars

Selected == rt_pc \in {"selected", "returned"} /\ Len(rt_lists) = NumShards

ShardPermutations ==
    {perm \in [1..NumShards -> 1..NumShards] :
        \A i, j \in 1..NumShards : perm[i] = perm[j] => i = j}

Permuted(lists, perm) == [i \in 1..Len(lists) |-> lists[perm[i]]]

\* C16: the fused ranking does not depend on the order in which the ranked
\* lists of the shards are fused, ties included.
C16_PermutationInvariant ==
    (rt_impl = "rrf" /\ Selected) =>
        \A perm \in ShardPermutations :
            TopPassageIds(Permuted(rt_lists, perm)) = rt_top

FusedEntries == Flatten(rt_lists)

FusedIds == {FusedEntries[i].passage_id : i \in 1..Len(FusedEntries)}

\* a is ranked before b: the higher fused score, and of equal scores the
\* lower passage id
RanksBefore(a, b) ==
    \/ FusedScore(FusedEntries, a) > FusedScore(FusedEntries, b)
    \/ /\ FusedScore(FusedEntries, a) = FusedScore(FusedEntries, b)
       /\ a < b

\* C17: the selected ids are the top max_results of the fused ids by fused
\* score, equal scores ordered by the lower passage id.
C17_TopByScoreThenId ==
    (rt_impl = "rrf" /\ Selected) =>
        /\ Len(rt_top) = Min(Cardinality(FusedIds), MaxPassagesToSelect)
        /\ \A i, j \in 1..Len(rt_top) : i < j => RanksBefore(rt_top[i], rt_top[j])
        /\ \A i \in 1..Len(rt_top) :
               \A c \in FusedIds \ Range(rt_top) : RanksBefore(rt_top[i], c)

\* C18: the returned passages follow the fused ranking index by index,
\* whatever the order of the rows the store returned.
C18_OutputMatchesRanking ==
    (rt_impl = "rrf" /\ rt_pc = "returned" /\ rt_rows.ok /\ rt_rows.ids # <<>>) =>
        \A i \in 1..Len(rt_out) : rt_out[i] = rt_top[i]

\* What the shards that answered returned, the failed ones left out.
SucceededLists ==
    LET answered == SelectSeq(rt_replies, LAMBDA reply : reply.ok)
    IN  [i \in 1..Len(answered) |-> QueryResult(rt_impl, answered[i].metas)]

\* C19: a shard whose query raised contributes the empty list, the retrieve
\* call does not end with the exception of a shard, and what is selected is
\* what the lists of the shards that answered select on their own.
C19_ShardFailureContained ==
    /\ \A i \in 1..Len(rt_replies) : ~rt_replies[i].ok => rt_lists[i] = <<>>
    /\ rt_pc = "raised" => ~rt_rows.ok
    /\ Selected => rt_top = SelectIds(rt_impl, SucceededLists)

\* One shard failed, the other answered, and passages were returned.
C19_Witness ==
    /\ rt_pc = "returned"
    /\ \E i \in 1..Len(rt_replies) : ~rt_replies[i].ok
    /\ \E i \in 1..Len(rt_replies) : rt_replies[i].ok
    /\ Len(rt_out) = 2

\* C20: no two returned passages have the same passage id, and no more than
\* max_results passages are returned.
C20_DistinctAndCapped ==
    rt_pc = "returned" =>
        /\ \A i, j \in 1..Len(rt_out) : i # j => rt_out[i] # rt_out[j]
        /\ Len(rt_out) <= MaxPassagesToSelect

(***************************************************************************)
(* C23..C29: error events, routing, the relevance cut and termination of   *)
(* a turn (specifications Spec and LiveSpec)                               *)
(***************************************************************************)
\* The error events of the turn.
NumErrors == Len(OfType("error"))

\* The planner call of this turn has failed: no plan was ever stored and an
\* except block has run.
PlannerFailed == plan = NoPlan /\ ErrorEmitted

\* C23: when the planner fails, the turn emits exactly one error event, whose
\* message is the configured plan_generation_failed template, and both logs
\* are left as they were before the turn.
C23_PlanGenerationFailedTemplate ==
    PlannerFailed
    => (/\ events = <<[type |-> "error", content |-> <<"plan_generation_failed">>]>>
        /\ history = history0
        /\ raw_history = raw0)

\* Some judge call of this turn's rerank has failed inside the reranker: a
\* retrieved candidate is missing from what rerank returned.
JudgeCallFailed ==
    /\ stream_state # "none"
    /\ Len(reranked) < Len(retrieved)

\* C24 as claimed: a failure raised by any LLM call or vector-store call during
\* a turn produces exactly one error event.  Taken at the end of a turn one of
\* whose judge calls has failed.
C24_EveryFailureOneError ==
    (pc = "done" /\ outcome # "cancelled" /\ JudgeCallFailed) => NumErrors = 1

\* An exception of family err reaches the except blocks of process_query.
FailureReachesOrchestrator(err) ==
    \/ PlannerFails(err)
    \/ StreamFails(err)
    \/ SummarizerFails(err)
    \/ RetrieverFails(err)
    \/ RerankFails(err)

\* C24 amended: every exception that reaches process_query during a turn
\* produces exactly one error event, carrying the "services unavailable"
\* message when the exception is a network failure (APIConnectionError,
\* APITimeoutError, RequestException) and the error_fallback template
\* otherwise; a turn never emits more than one error event.  (A failure the
\* reranker or the retriever contains produces none.)
C24_ErrorEventPerFailure ==
    [][/\ \A err \in Errors :
            FailureReachesOrchestrator(err)
            => events' = Append(events,
                                [type |-> "error",
                                 content |-> IF err = "network"
                                               THEN NetworkErrorMessage
                                             ELSE ResponseTemplates.error_fallback])
       /\ Len(SelectSeq(events', LAMBDA e : e.type = "error")) <= 1]_vars

\* C24 witness: a stream has failed with a network error after an answer
\* chunk, and the "services unavailable" event is the one error event.
C24_Witness ==
    /\ pc = "error"
    /\ Len(events) >= 2
    /\ events[1].type = "answer_chunk"
    /\ Last(events) = [type |-> "error", content |-> NetworkErrorMessage]
    /\ NumErrors = 1

\* The last HistoryWindow entries of a log.
LastWindow(log) ==
    IF Len(log) <= HistoryWindow THEN log
    ELSE SubSeq(log, Len(log) - HistoryWindow + 1, Len(log))

\* C25: after n successful turns each log holds exactly the last
\* min(n, history_window) pairs, in turn order, whatever branches the turns
\* took.  Stated as the step the claim needs: a successful turn that starts
\* with logs holding the last pairs within the window ends with each log
\* holding the last history_window entries of the log it started with
\* followed by the pair of this turn.
C25_LastPairsKept ==
    (/\ TurnCompleted
     /\ Len(raw0) <= HistoryWindow
     /\ Len(history0) <= HistoryWindow)
    => (/\ raw_history # <<>>
        /\ history # <<>>
        /\ Last(raw_history)[1] = user_query
        /\ Last(history)[1] = user_query
        /\ raw_history = LastWindow(Append(raw0, Last(raw_history)))
        /\ history = LastWindow(Append(history0, Last(history))))

\* The branch each kind of plan is to be dispatched to, as the position the
\* generator reaches.
BranchOf(kind) ==
    IF kind = "AMBIGUOUS" THEN "clarifying"
    ELSE IF kind \in NonRetrievalTypes THEN "responding"
    ELSE "retrieving"

\* C26: the router is a pure dispatch on the kind of the plan: AMBIGUOUS runs
\* the clarification branch, the seven non-retrieval kinds run the responder
\* branch, IN_DOMAIN runs the retrieval branch, and retrieval and reranking
\* happen only for an IN_DOMAIN plan.
C26_DispatchOnKind ==
    [][/\ \A p \in Plans : PlannerReturns(p) => pc' = BranchOf(p.query_type)
       /\ pc' \in {"retrieving", "reranking"}
          => plan'.query_type = "IN_DOMAIN_GOVT_SERVICE_INQUIRY"]_vars

\* p comes before q when sorted by score ascending, ties by passage_id.
ScoreThenIdOrder(p, q) ==
    \/ p.score < q.score
    \/ p.score = q.score /\ (p.passage_id = q.passage_id
                             \/ LexLess(p.passage_id, q.passage_id))

\* C27: the passage list the orchestrator hands to build_safe_prompt for
\* synthesis is sorted by score ascending, ties broken by passage_id, whatever
\* order the retriever and the reranker delivered.
C27_PassagesSortedByScore ==
    pc = "answering"
    => \A i \in 1..Len(relevant_passages) : \A j \in 1..Len(relevant_passages) :
           i < j => ScoreThenIdOrder(relevant_passages[i], relevant_passages[j])

\* The positions of rr whose score passes the relevance cut.
PassingCut(rr) == {i \in 1..Len(rr) : rr[i].score <= RelevanceThreshold}

\* C28: the relevance cut keeps exactly the passages whose score is at most
\* the threshold; the pivot branch runs if and only if none is kept and the
\* synthesis branch if and only if at least one is.
C28_RelevanceCut ==
    pc \in {"pivoting", "answering"}
    => (/\ \A p \in Range(reranked) :
              p \in Range(relevant_passages) <=> p.score <= RelevanceThreshold
        /\ Len(relevant_passages) = Cardinality(PassingCut(reranked))
        /\ pc = "pivoting" <=> PassingCut(reranked) = {}
        /\ pc = "answering" <=> PassingCut(reranked) # {})

\* C28 witness: synthesis is entered with one passage kept at the threshold
\* and one dropped above it.
C28_Witness ==
    /\ pc = "answering"
    /\ Len(reranked) = 2
    /\ Len(relevant_passages) = 1
    /\ relevant_passages[1].score = RelevanceThreshold

\* C29: provided every backend call eventually returns or fails and every
\* stream is finite, a turn that has started terminates, completed or
\* errored; it never stays in planning, retrieving, reranking, streaming or
\* summarizing for ever.
C29_TurnTerminates ==
    (pc \notin {"idle", "done"})
    ~> (pc = "done" /\ outcome \in {"completed", "errored"})

\* C29 witness: a turn has gone through planning, retrieval, reranking, the
\* answer stream and final_data, and ended errored in the summarizer.
C29_Witness ==
    /\ pc = "done"
    /\ outcome = "errored"
    /\ relevant_passages # <<>>
    /\ NumFinalData = 1
    /\ NumErrors = 1

(***************************************************************************)
(* TokenManager.build_safe_prompt (src/cogops/utils/token_manager.py),     *)
(* taken on its own: one call with any template, slot values and ceiling.  *)
(*                                                                         *)
(* A text is a sequence of symbols: a character, a word, or a literal      *)
(* piece of one of the f-strings of the code.  The tokenizer is a greedy   *)
(* longest-match tokenizer over a small vocabulary that puts a special     *)
(* token in front of what it encodes, as tokenizer.encode does by default, *)
(* so that token counts are not additive and decode(encode(t)[:n]) is      *)
(* computed.                                                               *)
(***************************************************************************)
MaxCeiling == 28

MaxHistoryLen == 2

MaxPassages == 2

\* self.reservation_tokens
ReservationTokens == 4

\* self.history_budget, as a fraction
HistoryBudgetNum == 1

HistoryBudgetDen == 2

\* The special token tokenizer.encode puts first.
Bos == <<"<bos>">>

\* The entries of the vocabulary that span several symbols.
Vocabulary == {<<"Q", ": ">>, <<"a", "b">>}

RECURSIVE Tokens(_)
Tokens(text) ==
    IF text = <<>> THEN <<>>
    ELSE IF Len(text) >= 2 /\ SubSeq(text, 1, 2) \in Vocabulary
      THEN <<SubSeq(text, 1, 2)>> \o Tokens(SubSeq(text, 3, Len(text)))
    ELSE <<SubSeq(text, 1, 1)>> \o Tokens(Tail(text))

\* tokenizer.encode(text)
Encode(text) == <<Bos>> \o Tokens(text)

\* tokenizer.decode(ids, skip_special_tokens=True)
Decode(ids) == Join(SelectSeq(ids, LAMBDA t : t # Bos))

count_tokens(text) == IF text = <<>> THEN 0 ELSE Len(Encode(text))

\* sep.join(parts)
RECURSIVE JoinWith(_, _)
JoinWith(sep, parts) ==
    IF parts = <<>> THEN <<>>
    ELSE IF Len(parts) = 1 THEN parts[1]
    ELSE parts[1] \o sep \o JoinWith(sep, Tail(parts))

\* f"User: {u}\nAI: {a}"
FormatTurn(t) == <<"User: ">> \o t[1] \o <<"\nAI: ">> \o t[2]

\* "\n---\n".join(...)
FormatHistory(h) ==
    JoinWith(<<"\n---\n">>, [i \in 1..Len(h) |-> FormatTurn(h[i])])

NoHistoryYet == <<"No", " conversation", " history", " yet", ".">>

HistoryTooLong == <<"History", " is", " too", " long", " to", " be", " included", ".">>

\* The while loop of _truncate_history: truncated_history when it is left.
RECURSIVE truncated_history(_, _)
truncated_history(h, max_tokens) ==
    IF h = <<>> THEN <<>>
    ELSE IF count_tokens(FormatHistory(h)) <= max_tokens THEN h
    ELSE truncated_history(Tail(h), max_tokens)

truncate_history(hist, max_tokens) ==
    IF hist = <<>> THEN NoHistoryYet
    ELSE LET kept == truncated_history(hist, max_tokens)
         IN  IF kept = <<>> THEN HistoryTooLong ELSE FormatHistory(kept)

\* f"Passage ID: {...}\nContent: {p['document']}"
FormatPassage(p) ==
    <<"Passage ID: ">> \o p.passage_id \o <<"\nContent: ">> \o p.document

\* "\n\n".join(...) over passages[:i]
PassagesContext(passages, i) ==
    JoinWith(<<"\n\n">>, [j \in 1..i |-> FormatPassage(passages[j])])

\* The for loop of _truncate_passages: the i of the context it returns, 0 when
\* it falls out of the loop.
RECURSIVE current_passages(_, _, _)
current_passages(passages, i, max_tokens) ==
    IF i = 0 THEN 0
    ELSE IF count_tokens(PassagesContext(passages, i)) <= max_tokens THEN i
    ELSE current_passages(passages, i - 1, max_tokens)

\* Faulty variant: the loop starts one short of the whole list.
truncate_passages_OneShort(passages, max_tokens) ==
    LET i == IF passages = <<>> THEN 0
             ELSE current_passages(passages, Len(passages) - 1, max_tokens)
    IN  IF i = 0 THEN <<>> ELSE PassagesContext(passages, i)

truncate_passages(passages, max_tokens) ==
    LET i == current_passages(passages, Len(passages), max_tokens)
    IN  IF i = 0 THEN <<>> ELSE PassagesContext(passages, i)

\* A template is a sequence of literal texts and named slots.
Lit(text) == [slot |-> "", lit |-> text]

Slot(name) == [slot |-> name, lit |-> <<>>]

SynthesisTemplate ==
    <<Lit(<<"History", "\n">>), Slot("history_str"), Lit(<<"\n", "Q", ": ">>),
      Slot("user_query"), Lit(<<"\n", "Context", "\n">>), Slot("passages_context")>>

RerankTemplate ==
    <<Lit(<<"History", "\n">>), Slot("history_str"), Lit(<<"\n", "Q", ": ">>),
      Slot("user_query"), Lit(<<"\n", "S", ": ">>), Slot("search_query"),
      Lit(<<"\n", "Passage", ": ">>), Slot("passage_text")>>

\* The tokens of the fixed components, in kwargs order.
RECURSIVE FixedTokens(_)
FixedTokens(fixed) ==
    IF fixed = <<>> THEN 0
    ELSE count_tokens(Head(fixed).value) + FixedTokens(Tail(fixed))

\* remaining_tokens, clamped at 0.
RemainingTokens(available_content_tokens, tokens_used) ==
    IF available_content_tokens - tokens_used < 0 THEN 0
    ELSE available_content_tokens - tokens_used

\* Faulty variant: history is given all that remains.
HistoryBudgetTokens_Whole(remaining_tokens) == remaining_tokens

\* int(remaining_tokens * self.history_budget)
HistoryBudgetTokens(remaining_tokens) ==
    (remaining_tokens * HistoryBudgetNum) \div HistoryBudgetDen

\* Faulty variant: passages are served first, with the share history leaves,
\* and history gets what the passages did not use.
Components_PassagesFirst(call) ==
    LET available_content_tokens == call.max_tokens - ReservationTokens
        fixed_tokens == FixedTokens(call.fixed)
        remaining_tokens == RemainingTokens(available_content_tokens, fixed_tokens)
        passage_tokens_budget == remaining_tokens - HistoryBudgetTokens(remaining_tokens)
        passages == IF call.passages_context # <<>> THEN call.passages_context[1]
                    ELSE <<>>
        passage_str == truncate_passages(passages, passage_tokens_budget)
        history_budget_tokens == remaining_tokens - count_tokens(passage_str)
        history_str == IF call.history # <<>>
                         THEN truncate_history(call.history[1], history_budget_tokens)
                       ELSE <<>>
    IN  [history_str |-> history_str,
         passage_str |-> passage_str,
         history_kept |-> IF call.history # <<>>
                            THEN Len(truncated_history(call.history[1],
                                                       history_budget_tokens))
                          ELSE 0,
         passages_kept |-> current_passages(passages, Len(passages),
                                            passage_tokens_budget)]

\* Steps 1 and 2 of build_safe_prompt: the fixed components are measured, the
\* history gets its share of what remains and the passages get the rest.
\* history_kept and passages_kept are the numbers of turns and of passages
\* that history_str and passage_str hold.
Components(call) ==
    LET available_content_tokens == call.max_tokens - ReservationTokens
        fixed_tokens == FixedTokens(call.fixed)
        remaining_tokens == RemainingTokens(available_content_tokens, fixed_tokens)
        history_budget_tokens == HistoryBudgetTokens(remaining_tokens)
        history_str == IF call.history # <<>>
                         THEN truncate_history(call.history[1], history_budget_tokens)
                       ELSE <<>>
        tokens_used == fixed_tokens + count_tokens(history_str)
        passage_tokens_budget == available_content_tokens - tokens_used
        passages == IF call.passages_context # <<>> THEN call.passages_context[1]
                    ELSE <<>>
        passage_str == truncate_passages(passages, passage_tokens_budget)
    IN  [history_str |-> history_str,
         passage_str |-> passage_str,
         history_kept |-> IF call.history # <<>>
                            THEN Len(truncated_history(call.history[1],
                                                       history_budget_tokens))
                          ELSE 0,
         passages_kept |-> current_passages(passages, Len(passages),
                                            passage_tokens_budget)]

\* final_components[name]
FinalComponent(call, comp, name) ==
    IF name = "history_str" THEN comp.history_str
    ELSE IF name = "passages_context" THEN comp.passage_str
    ELSE LET i == CHOOSE j \in 1..Len(call.fixed) : call.fixed[j].key = name
         IN  call.fixed[i].value

\* template.format(**final_components)
Format(call, comp) ==
    Join([i \in 1..Len(call.template) |->
            IF call.template[i].slot = "" THEN call.template[i].lit
            ELSE FinalComponent(call, comp, call.template[i].slot)])

\* Faulty variant: the final safety check is left out.
HardTruncate_Skipped(final_prompt, max_tokens) == final_prompt

\* The final safety check.
HardTruncate(final_prompt, max_tokens) ==
    IF count_tokens(final_prompt) > max_tokens
      THEN Decode(SubSeq(Encode(final_prompt), 1, max_tokens))
    ELSE final_prompt

build_safe_prompt(call) ==
    LET comp == Components(call)
        assembled == Format(call, comp)
    IN  [history_str |-> comp.history_str,
         passage_str |-> comp.passage_str,
         history_kept |-> comp.history_kept,
         passages_kept |-> comp.passages_kept,
         assembled |-> assembled,
         prompt |-> HardTruncate(assembled, call.max_tokens)]

\* Turns of a conversation: a short one and a long one.
TurnPool ==
    {<<<<"a">>, <<"b">>>>,
     <<<<"b", "a">>, <<"b", "b", "a">>>>}

\* Passages as the retriever returns them: a short document and a long one.
PassagePool ==
    {[passage_id |-> <<"1">>, document |-> <<"d">>],
     [passage_id |-> <<"9">>, document |-> <<"d", "e", "f", "g", "h">>]}

\* User queries: a short one, and one that alone exceeds a small budget.
UserQueries == {<<"a">>, <<"a", "b", "b", "a", " ", "b", "a">>}

Ceilings == 0..MaxCeiling

\* The call of process_query (agent.py:208-214).
SynthesisCalls ==
    {[template |-> SynthesisTemplate, max_tokens |-> c, history |-> <<h>>,
      passages_context |-> <<ps>>,
      fixed |-> <<[key |-> "user_query", value |-> q]>>] :
        c \in Ceilings, h \in SeqsUpTo(TurnPool, MaxHistoryLen),
        ps \in SeqsUpTo(PassagePool, MaxPassages), q \in UserQueries}

\* The call of _score_one_passage (reranker.py:75-82).
RerankCalls ==
    {[template |-> RerankTemplate, max_tokens |-> c, history |-> <<h>>,
      passages_context |-> <<>>,
      fixed |-> <<[key |-> "user_query", value |-> q],
                  [key |-> "search_query", value |-> <<"s">>],
                  [key |-> "passage_text", value |-> p.document]>>] :
        c \in Ceilings, h \in SeqsUpTo(TurnPool, MaxHistoryLen),
        p \in PassagePool, q \in UserQueries}

TokenManagerInit ==
    /\ tm_pc = "called"
    /\ tm_call \in SynthesisCalls \cup RerankCalls
    /\ tm_out = NoPrompt
    /\ AgentInit
    /\ SourcesOff
    /\ RerankerOff
    /\ RetrieverOff

\* build_safe_prompt runs and returns.
BuildSafePrompt ==
    /\ tm_pc = "called"
    /\ tm_out' = build_safe_prompt(tm_call)
    /\ tm_pc' = "returned"
    /\ UNCHANGED <<tm_call, agentVars, srcVars, rrVars, rtVars>>

TokenManagerNext == BuildSafePrompt

TokenManagerSpec == TokenManagerInit /\ [][TokenManagerNext]_vars

(***************************************************************************)
(* C21, C22, C30: the token budget                                         *)
(***************************************************************************)
\* The call of tm_call with another ceiling.
WithCeiling(c) == [tm_call EXCEPT !.max_tokens = c]

\* C21 as claimed: build_safe_prompt is monotone in the ceiling: with the
\* other inputs fixed, at any ceiling above the one of the call the number of
\* history turns kept is at least the number kept by the call, and so is the
\* number of passages kept.
C21_MonotoneInCeiling ==
    tm_pc = "returned"
    => \A c2 \in tm_call.max_tokens..MaxCeiling :
           /\ Components(WithCeiling(c2)).history_kept >= tm_out.history_kept
           /\ Components(WithCeiling(c2)).passages_kept >= tm_out.passages_kept

\* C21 amended: with the other inputs fixed, at any ceiling above the one of
\* the call the number of history turns kept is at least the number kept by
\* the call.
C21_HistoryMonotoneInCeiling ==
    tm_pc = "returned"
    => \A c2 \in tm_call.max_tokens..MaxCeiling :
           Components(WithCeiling(c2)).history_kept >= tm_out.history_kept

\* C21 witness: the call kept one turn of two, and a higher ceiling keeps both.
C21_Witness ==
    /\ tm_pc = "returned"
    /\ tm_call.history # <<>>
    /\ Len(tm_call.history[1]) = 2
    /\ tm_out.history_kept = 1
    /\ \E c2 \in tm_call.max_tokens..MaxCeiling :
           Components(WithCeiling(c2)).history_kept = 2

Suffix(h, k) == SubSeq(h, Len(h) - k + 1, Len(h))

\* The history budget of tm_call: floor(remaining * history_fraction), where
\* remaining is the ceiling less the reservation and the fixed slots, 0 at least.
HistoryBudgetOfCall ==
    LET remaining == tm_call.max_tokens - ReservationTokens - FixedTokens(tm_call.fixed)
    IN  ((IF remaining < 0 THEN 0 ELSE remaining) * HistoryBudgetNum) \div HistoryBudgetDen

\* The numbers of most recent turns whose formatted text fits the budget.
FittingSuffixes ==
    {k \in 1..Len(tm_call.history[1]) :
        count_tokens(FormatHistory(Suffix(tm_call.history[1], k))) <= HistoryBudgetOfCall}

PassageBudgetOfCall ==
    tm_call.max_tokens - ReservationTokens - FixedTokens(tm_call.fixed)
        - count_tokens(tm_out.history_str)

\* The lengths of the prefixes of the passage list whose formatted text fits
\* the budget.
FittingPrefixes ==
    {i \in 1..Len(tm_call.passages_context[1]) :
        count_tokens(PassagesContext(tm_call.passages_context[1], i)) <= PassageBudgetOfCall}

\* C31: the passages placed in the prompt are the longest prefix of the input
\* list whose formatted token count is at most the budget that remains after
\* the fixed slots and the finalized history; when not even the first passage
\* fits, they are the empty string.
C31_LongestFittingPrefix ==
    (/\ tm_pc = "returned"
     /\ tm_call.passages_context # <<>>
     /\ tm_call.passages_context[1] # <<>>)
    => IF 1 \notin FittingPrefixes
         THEN tm_out.passage_str = <<>>
       ELSE \E i \in FittingPrefixes :
              /\ \A m \in FittingPrefixes : m <= i
              /\ tm_out.passage_str = PassagesContext(tm_call.passages_context[1], i)

\* C31 witness: of two passages the first was kept and the second dropped,
\* after a history turn had taken its share.
C31_Witness ==
    /\ tm_pc = "returned"
    /\ tm_call.passages_context # <<>>
    /\ Len(tm_call.passages_context[1]) = 2
    /\ FittingPrefixes = {1}
    /\ tm_out.history_kept >= 1
    /\ tm_out.passage_str = PassagesContext(tm_call.passages_context[1], 1)

(***************************************************************************)
(* C32..C35, C37..C39: what a turn passes on, emits and leaves behind      *)
(* (specification Spec)                                                    *)
(***************************************************************************)
\* C32: in every in-domain turn the reranker is called with the verbatim log
\* and the synthesis prompt is built from the summarized log.
C32_RerankerGetsVerbatimLog ==
    /\ rerank_history # <<>> => rerank_history[1] = raw0
    /\ prompt_history # <<>> => prompt_history[1] = history0

\* The plan of this turn is AMBIGUOUS and carries a clarification text.
Clarifies ==
    /\ plan # NoPlan
    /\ plan.query_type = "AMBIGUOUS"
    /\ Truthy(plan.clarification)

\* One answer_chunk for each of the first n characters of text, in order.
CharacterChunks(text, n) == [i \in 1..n |-> AnswerChunk(<<text[i]>>)]

\* C33: for an AMBIGUOUS plan with clarification text c the turn emits one
\* answer_chunk per character of c, in order, and no final_data, and both logs
\* gain one entry whose reply is c.
C33_ClarificationPerCharacter ==
    Clarifies
    => (/\ pc = "clarifying"
           => events = CharacterChunks(plan.clarification[1], clar_idx)
        /\ TurnCompleted
           => (/\ events = CharacterChunks(plan.clarification[1],
                                           Len(plan.clarification[1]))
               /\ NumFinalData = 0
               /\ raw_history = Append(raw0, <<user_query, plan.clarification[1]>>)
               /\ history = Append(history0, <<user_query, plan.clarification[1]>>)))

\* C33 witness: a completed clarification turn of two characters.
C33_Witness ==
    /\ Clarifies
    /\ TurnCompleted
    /\ Len(plan.clarification[1]) = 2
    /\ Len(events) = 2
    /\ events[1] # events[2]

\* The retriever of this in-domain turn has returned no candidates.
RetrievalEmpty ==
    \/ pc = "no_passages"
    \/ /\ TurnCompleted
       /\ plan # NoPlan
       /\ plan.query_type = "IN_DOMAIN_GOVT_SERVICE_INQUIRY"
       /\ retrieved = <<>>

\* C34: when the retriever returns no candidates the turn emits exactly one
\* answer_chunk carrying the no_passages_found template and ends with no error
\* event and no final_data, the reranker, the answer LLM and the summarizer
\* not having been called.
C34_NoPassagesCannedAnswer ==
    RetrievalEmpty
    => (/\ events = <<AnswerChunk(ResponseTemplates.no_passages_found)>>
        /\ rerank_history = <<>>
        /\ reranked = <<>>
        /\ prompt_history = <<>>
        /\ stream_state = "none"
        /\ history = history0)

\* C34 witness: an in-domain turn has completed on an empty retrieval.
C34_Witness ==
    /\ RetrievalEmpty
    /\ pc = "done"
    /\ Len(events) = 1
    /\ turns >= 2

\* C35: when a responder or answer stream fails after k chunks, k >= 0, the
\* events of the turn are those k answer_chunk events in order followed by one
\* error event, and no final_data.
C35_ChunksThenError ==
    stream_state = "failed"
    => LET chunks == SelectSeq(upstream, HasContent)
       IN  /\ Len(events) = Len(chunks) + 1
           /\ \A i \in 1..Len(chunks) : events[i] = AnswerChunk(chunks[i])
           /\ events[Len(events)].type = "error"
           /\ NumFinalData = 0

\* C35 witness: the answer stream has failed after two chunks.
C35_Witness ==
    /\ stream_state = "failed"
    /\ relevant_passages # <<>>
    /\ Len(events) = 3
    /\ events[2].type = "answer_chunk"

\* C37: on every streaming branch the chunk taken from the upstream stream is
\* emitted to the caller in the same step, before the next one is taken, the
\* stream still being open.
C37_NoBuffering ==
    [][(/\ Len(upstream') = Len(upstream) + 1
        /\ HasContent(upstream'[Len(upstream')]))
       => (/\ events' = Append(events, AnswerChunk(upstream'[Len(upstream')]))
           /\ stream_state' = "open")]_vars

\* C37 witness: the first answer_chunk has been emitted and the upstream
\* stream has more to deliver.
C37_Witness ==
    /\ stream_state = "open"
    /\ upstream \notin Streams
    /\ Len(events) = 1
    /\ events[1].type = "answer_chunk"

\* C38: whenever no turn is running, the two logs are index-aligned: they have
\* the same length and hold the same user utterance at every position.
C38_LogsIndexAligned ==
    pc \in {"idle", "done"}
    => (/\ Len(raw_history) = Len(history)
        /\ \A i \in 1..Len(history) : raw_history[i][1] = history[i][1])

\* C39: every call of process_query that ends, completed or errored, has
\* emitted at least one event.
C39_AtLeastOneEvent ==
    (pc = "done" /\ outcome \in {"completed", "errored"}) => events # <<>>

(***************************************************************************)
(* C36: a failing passage store (specification RetrieverSpec)              *)
(***************************************************************************)
\* C36: when reading the selected passage ids from the passage store fails,
\* the retriever hands no passages on and the failure reaches its caller, the
\* orchestrator, which ends the turn with an error event; the call does not
\* come back as an empty retrieval.
C36_StoreFailureSurfaced ==
    ~rt_rows.ok => (rt_pc = "raised" /\ rt_out = <<>>)

(***************************************************************************)
(* C40: progress of rerank() (specification RerankLiveSpec).  No caller    *)
(* cancels, the event loop goes on running whatever is ready, and every    *)
(* judge call comes back: the steps of the tasks and of gather are taken   *)
(* as long as one of them can be.                                          *)
(***************************************************************************)
RerankStep ==
    \/ \E t \in Tasks : StartTask(t)
    \/ \E t \in Tasks : Resume(t)
    \/ \E t \in Tasks, score \in Scores : JudgeScores(t, score)
    \/ \E t \in Tasks : JudgeOverflows(t)
    \/ \E t \in Tasks : JudgeFails(t)
    \/ \E inv \in Invocations : GatherCompletes(inv)

UncancelledRerankNext ==
    \/ \E inv \in Invocations, n \in 0..MaxCandidates : Rerank(inv, n)
    \/ RerankStep

RerankLiveSpec ==
    RerankInit /\ [][UncancelledRerankNext]_vars /\ WF_vars(RerankStep)

\* C40: for every concurrency limit N >= 1 and every number of candidates,
\* provided every judge call eventually returns or fails, every candidate
\* task eventually holds a permit of the semaphore and rerank eventually
\* returns a list with no more entries than there were candidates.
C40_RerankProgress ==
    /\ \A t \in Tasks :
          (rr_task[t].st \in {"new", "waiting"}) ~> (rr_task[t].st = "calling")
    /\ \A inv \in Invocations :
          (rr_pc[inv] = "gathering")
          ~> (rr_pc[inv] = "returned" /\ Len(rr_result[inv]) <= rr_n[inv])

\* C40 witness: with a limit of one, a batch of two candidates has returned
\* and a task of the other batch, parked meanwhile, has been handed the
\* permit.
C40_Witness ==
    /\ rr_limit = 1
    /\ rr_pc[1] = "returned" /\ rr_n[1] = 2
    /\ Len(rr_result[1]) <= 2
    /\ rr_pc[2] = "gathering"
    /\ rr_task[<<2, 1>>].st = "granted"
====
